---- MODULE Spec2Model ----
\* Model of kraft's "configure" command (src/kraft/cmd/configure.py):
\* cmd_configure (option normalization, MissingComponent recovery) and
\* kraft_configure (menuconfig short-circuit, already-configured check,
\* target resolution, Application.configure, save_yaml).
\*
\* Python strings are sequences of one-character strings, so that
\* startswith, "in", %-formatting and basename are computed, not assumed.
EXTENDS Integers, Sequences, FiniteSets, TLC

VARIABLES
    args,             \* the click parameters of the invocation (never change)
    env,              \* verbose flag, tty, the application found in workdir
    force_configure,  \* cmd_configure's force_configure parameter
    pc,               \* position in cmd_configure / kraft_configure
    options,          \* cmd_configure's local list "options"
    kforce,           \* kraft_configure's local force_configure
    target,           \* kraft_configure's local "target"
    depth,            \* number of entries of cmd_configure so far
    exit_code,        \* -1 while running, then the process' exit status
    error,            \* what was reported when the invocation failed
    answers,          \* kraft_configure's local answers['target']
    trace,            \* external calls and prompts, in order
    configure_log     \* the arguments of each Application.configure call

vars == <<args, env, force_configure, pc, options, kforce, target, depth,
          exit_code, error, answers, trace, configure_log>>

-----------------------------------------------------------------------------
\* Bounds of the model.

\* Longest --yes, --no and --set lists tried.
MaxYes == 2
MaxNo == 2
MaxSet == 2
\* Most targets an application declares.
MaxTargets == 2
\* Nesting of cmd_configure at which the interpreter's recursion limit is hit.
MaxDepth == 3

-----------------------------------------------------------------------------
\* Strings.

\* Python's None where a string or an object is expected: differs from
\* every string of the model.
None == <<"None">>

\* kraft.const (not part of the reviewed file): the key namespace is a
\* %-format template, as configure.py uses it in "KCONFIG % y".
KCONFIG == <<"K", "E", "Y", "_", "%", "s">>
KCONFIG_EQ == <<"%", "s", "=", "%", "s">>
KCONFIG_Y == <<"y">>
KCONFIG_N == <<"n">>

\* s.startswith(p)
StartsWith(s, p) == Len(s) >= Len(p) /\ SubSeq(s, 1, Len(p)) = p

\* c in s, for a one-character c
HasChar(s, c) == \E i \in 1..Len(s) : s[i] = c

\* x in l, for a list l
InList(x, l) == \E i \in 1..Len(l) : l[i] = x

\* tmpl % fmtargs: every "%s" of tmpl is replaced by the next argument.
RECURSIVE Format(_, _)
Format(tmpl, fmtargs) ==
    IF tmpl = <<>> THEN <<>>
    ELSE IF Len(tmpl) >= 2 /\ tmpl[1] = "%" /\ tmpl[2] = "s"
         THEN Head(fmtargs) \o Format(SubSeq(tmpl, 3, Len(tmpl)), Tail(fmtargs))
         ELSE <<tmpl[1]>> \o Format(Tail(tmpl), fmtargs)

\* os.path.basename(p): what follows the last "/".
RECURSIVE Basename(_)
Basename(p) ==
    IF HasChar(p, "/") THEN Basename(Tail(p)) ELSE p

-----------------------------------------------------------------------------
\* Option normalization, cmd_configure lines 127-145.

\* "if not y.startswith(KCONFIG): y = KCONFIG % y"
Namespaced(tok) ==
    IF ~StartsWith(tok, KCONFIG) THEN Format(KCONFIG, <<tok>>) ELSE tok

\* Mutant of YesLoop: each assignment is put in front of the list.
RECURSIVE YesLoop_Prepend(_, _)
YesLoop_Prepend(yes, acc) ==
    IF yes = <<>> THEN acc
    ELSE YesLoop_Prepend(Tail(yes),
             <<Format(KCONFIG_EQ, <<Namespaced(Head(yes)), KCONFIG_Y>>)>> \o acc)

\* for y in yes: ...
RECURSIVE YesLoop(_, _)
YesLoop(yes, acc) ==
    IF yes = <<>> THEN acc
    ELSE YesLoop(Tail(yes),
                 Append(acc, Format(KCONFIG_EQ, <<Namespaced(Head(yes)), KCONFIG_Y>>)))

\* "if n in options": a list membership test of the key against the
\* queued assignments.
NoConflict(n, acc) == InList(n, acc)

\* for n in no: ...
RECURSIVE NoLoop(_, _)
NoLoop(no, acc) ==
    IF no = <<>> THEN [status |-> "ok", options |-> acc, token |-> <<>>]
    ELSE LET n == Namespaced(Head(no))
         IN  IF NoConflict(n, acc)
             THEN [status |-> "ConflictingOption", options |-> acc, token |-> n]
             ELSE NoLoop(Tail(no), Append(acc, Format(KCONFIG_EQ, <<n, KCONFIG_N>>)))

\* Mutant of SetLoop: the --set token is appended as given, without the
\* namespace prefix.
RECURSIVE SetLoop_Raw(_, _)
SetLoop_Raw(opts, acc) ==
    IF opts = <<>> THEN [status |-> "ok", options |-> acc, token |-> <<>>]
    ELSE LET o == Head(opts)
         IN  IF ~HasChar(o, "=")
             THEN [status |-> "MissingOptionValue", options |-> acc, token |-> o]
             ELSE SetLoop_Raw(Tail(opts), Append(acc, o))

\* Mutant of SetLoop: the test for "=" is missing.
RECURSIVE SetLoop_NoValueCheck(_, _)
SetLoop_NoValueCheck(opts, acc) ==
    IF opts = <<>> THEN [status |-> "ok", options |-> acc, token |-> <<>>]
    ELSE SetLoop_NoValueCheck(Tail(opts), Append(acc, Namespaced(Head(opts))))

\* for o in opts: ...
RECURSIVE SetLoop(_, _)
SetLoop(opts, acc) ==
    IF opts = <<>> THEN [status |-> "ok", options |-> acc, token |-> <<>>]
    ELSE LET o == Namespaced(Head(opts))
         IN  IF ~HasChar(o, "=")
             THEN [status |-> "MissingOptionValue", options |-> acc, token |-> o]
             ELSE SetLoop(Tail(opts), Append(acc, o))

\* The three loops in order; sys.exit(1) ends the function at once.
NormalizeOptions(yes, no, opts) ==
    LET afterNo == NoLoop(no, YesLoop(yes, <<>>))
    IN  IF afterNo.status # "ok" THEN afterNo
        ELSE SetLoop(opts, afterNo.options)

-----------------------------------------------------------------------------
\* Target resolution, kraft_configure lines 230-273.

\* The local variable "target": None, the --target name, or a target object.
NoTarget == [kind |-> "none", val |-> None]
TargetName(s) == [kind |-> "name", val |-> s]
TargetObj(t) == [kind |-> "target", val |-> t]

\* Mutant of TargetLoop: the --target name is not looked at.
RECURSIVE TargetLoop_ArchPlatOnly(_, _, _, _)
TargetLoop_ArchPlatOnly(ts, tgt, arch, plat) ==
    IF ts = <<>> THEN tgt
    ELSE LET t == Head(ts)
         IN  IF arch = t.architecture /\ plat = t.platform THEN TargetObj(t)
             ELSE TargetLoop_ArchPlatOnly(Tail(ts), tgt, arch, plat)

\* for t in app.config.targets.all(): ... break
RECURSIVE TargetLoop(_, _, _, _)
TargetLoop(ts, tgt, arch, plat) ==
    IF ts = <<>> THEN tgt
    ELSE LET t == Head(ts)
         IN  IF tgt.kind # "none" /\ tgt.val = t.name THEN TargetObj(t)
             ELSE IF arch = t.architecture /\ plat = t.platform THEN TargetObj(t)
             ELSE TargetLoop(Tail(ts), tgt, arch, plat)

\* Mutant of ResolveTarget: the hints are tried before the single-target
\* shortcut.
ResolveTarget_HintsFirst(app, tgt, arch, plat) ==
    LET hinted == TargetLoop(app.targets, tgt, arch, plat)
    IN  IF hinted.kind # "none" THEN hinted
        ELSE IF Len(app.targets) = 1 THEN TargetObj(app.targets[1])
        ELSE IF Len(app.binaries) = 1 THEN TargetObj(app.binaries[1])
        ELSE hinted

\* Mutant of ResolveTarget: the single-binary shortcut is missing.
ResolveTarget_NoBinaryShortcut(app, tgt, arch, plat) ==
    IF Len(app.targets) = 1 THEN TargetObj(app.targets[1])
    ELSE TargetLoop(app.targets, tgt, arch, plat)

\* lines 230-247
ResolveTarget(app, tgt, arch, plat) ==
    IF Len(app.targets) = 1 THEN TargetObj(app.targets[1])
    ELSE IF Len(app.binaries) = 1 THEN TargetObj(app.binaries[1])
    ELSE TargetLoop(app.targets, tgt, arch, plat)

\* lines 254-256: the label offered for one binary
BinLabel(t) ==
    LET binname == Basename(t.binary)
    IN  IF t.name # None
        THEN Format(<<"%", "s", " ", "(", "%", "s", ")">>, <<binname, t.name>>)
        ELSE binname

\* lines 251-258: the choices of the prompt
Choices(bins) == [i \in 1..Len(bins) |-> BinLabel(bins[i])]

\* lines 270-273: "Work backwards from binary name"
RECURSIVE WorkBackwards(_, _)
WorkBackwards(bins, answer) ==
    IF bins = <<>> THEN NoTarget
    ELSE IF answer = Basename(Head(bins).binary) THEN TargetObj(Head(bins))
    ELSE WorkBackwards(Tail(bins), answer)

-----------------------------------------------------------------------------
\* Inputs.

SeqsUpTo(S, n) == UNION {[1..k -> S] : k \in 0..n}

A == <<"a">>
B == <<"b">>
KEY_A == <<"K", "E", "Y", "_", "a">>
KEY_B == <<"K", "E", "Y", "_", "b">>
A_Y == <<"a", "=", "y">>
A_N == <<"a", "=", "n">>
C_2 == <<"c", "=", "2">>

T1 == [name |-> <<"t", "1">>, architecture |-> <<"x">>, platform |-> <<"k">>,
       binary |-> <<"o", "/", "u", "1">>]
T2 == [name |-> <<"t", "2">>, architecture |-> <<"x">>, platform |-> <<"e">>,
       binary |-> <<"o", "/", "u", "2">>]
T3 == [name |-> None, architecture |-> <<"x">>, platform |-> <<"k">>,
       binary |-> <<"o", "/", "u", "3">>]
TargetPool == {T1, T2, T3}

\* The elements of ts at the positions in I, in order.
RECURSIVE Pick(_, _, _)
Pick(ts, I, i) ==
    IF i > Len(ts) THEN <<>>
    ELSE (IF i \in I THEN <<ts[i]>> ELSE <<>>) \o Pick(ts, I, i + 1)

\* Applications: distinct declared targets, of which some have a binary.
Apps(n) ==
    {[targets |-> ts, binaries |-> Pick(ts, I, 1), configured |-> c] :
        <<ts, I, c>> \in
            {x \in SeqsUpTo(TargetPool, n) \X (SUBSET (1..n)) \X BOOLEAN :
                /\ \A i, j \in 1..Len(x[1]) : i # j => x[1][i] # x[1][j]
                /\ x[2] \subseteq 1..Len(x[1])}}

TargetHints == {None, <<"t", "1">>, <<"t", "2">>, <<"z">>}
ArchPlatHints == {<<None, None>>, <<(<<"x">>), (<<"k">>)>>,
                  <<(<<"x">>), (<<"e">>)>>, <<(<<"x">>), None>>}

InitWith(yesS, noS, setS, tgtS, apS, menuS, forceS, verbS, ttyS, appS) ==
    /\ args \in {[target |-> t, arch |-> ap[1], plat |-> ap[2],
                  show_menuconfig |-> m, yes |-> y, no |-> n, opts |-> o,
                  force_configure |-> f] :
                 <<t, ap, m, y, n, o, f>> \in
                     tgtS \X apS \X menuS \X yesS \X noS \X setS \X forceS}
    /\ env \in [verbose : verbS, isatty : ttyS, app : appS]
    /\ force_configure = args.force_configure
    /\ pc = "start"
    /\ options = <<>>
    /\ kforce = FALSE
    /\ target = NoTarget
    /\ answers = None
    /\ depth = 0
    /\ exit_code = -1
    /\ error = "none"
    /\ trace = <<>>
    /\ configure_log = <<>>

\* Every shape of application and every hint; few option lists.
Init ==
    InitWith({<<>>, <<A>>}, {<<>>}, {<<>>, <<B>>},
             TargetHints, ArchPlatHints, BOOLEAN, BOOLEAN, BOOLEAN, BOOLEAN,
             Apps(MaxTargets))

\* Every option list; one configured application with two targets and two
\* binaries, no hint, --force, not verbose, no terminal.
InitOptions ==
    InitWith(SeqsUpTo({A, KEY_A}, MaxYes), SeqsUpTo({A, B, KEY_B, A_Y}, MaxNo),
             SeqsUpTo({B, C_2}, MaxSet),
             {None}, {<<None, None>>}, BOOLEAN, {TRUE}, {FALSE}, {FALSE},
             {[targets |-> <<T1, T3>>, binaries |-> <<T1, T3>>,
               configured |-> TRUE]})

-----------------------------------------------------------------------------
\* Steps of cmd_configure and kraft_configure.

\* sys.exit(1), directly or through the "except Exception" handler
\* (lines 188-195), with what was reported.
Exit1(kind) ==
    /\ pc' = "done"
    /\ exit_code' = 1
    /\ error' = kind

\* cmd_configure returns: the process ends with status 0.
Return0 ==
    /\ pc' = "done"
    /\ exit_code' = 0
    /\ error' = "none"

\* lines 122-127: entry of cmd_configure
Preflight ==
    /\ pc = "start"
    /\ pc' = "normalize"
    /\ depth' = depth + 1
    /\ options' = <<>>
    /\ trace' = Append(trace, "kraft_list_preflight")
    /\ UNCHANGED <<args, env, answers, force_configure, kforce, target, exit_code,
                   error, configure_log>>

\* lines 127-145
Normalize ==
    /\ pc = "normalize"
    /\ LET r == NormalizeOptions(args.yes, args.no, args.opts)
       IN  /\ options' = r.options
           /\ IF r.status = "ok"
              THEN /\ pc' = "kraft_configure"
                   /\ UNCHANGED <<exit_code, error>>
              ELSE Exit1(r.status)
    /\ trace' = Append(trace, "normalize")
    /\ UNCHANGED <<args, env, answers, force_configure, kforce, target, depth,
                   configure_log>>

\* lines 148-158 and 207-216: the call of kraft_configure, the workdir
\* check and Application.from_workdir, which may raise.
KraftConfigure ==
    /\ pc = "kraft_configure"
    /\ kforce' = force_configure
    /\ target' = IF args.target = None THEN NoTarget ELSE TargetName(args.target)
    /\ answers' = None
    /\ trace' = Append(trace, "kraft_configure")
    /\ \E loaded \in BOOLEAN :
          IF loaded
          THEN /\ pc' = "menuconfig"
               /\ UNCHANGED <<exit_code, error>>
          ELSE Exit1("Exception")
    /\ UNCHANGED <<args, env, force_configure, options, depth, configure_log>>

\* Mutant of MenuConfig: the menu editor is opened without looking at the
\* terminal.
MenuConfig_NoTtyCheck ==
    /\ pc = "menuconfig"
    /\ IF args.show_menuconfig
       THEN /\ trace' = Append(trace, "open_menuconfig")
            /\ Return0
       ELSE /\ pc' = "is_configured"
            /\ UNCHANGED <<exit_code, error, trace>>
    /\ UNCHANGED <<args, env, answers, force_configure, options, kforce, target, depth,
                   configure_log>>

\* Mutant of MenuConfig: the "return" after open_menuconfig is missing.
MenuConfig_NoReturn ==
    /\ pc = "menuconfig"
    /\ IF args.show_menuconfig
       THEN IF env.isatty
            THEN /\ trace' = Append(trace, "open_menuconfig")
                 /\ pc' = "is_configured"
                 /\ UNCHANGED <<exit_code, error>>
            ELSE /\ Exit1("NonInteractiveMenuConfig")
                 /\ UNCHANGED trace
       ELSE /\ pc' = "is_configured"
            /\ UNCHANGED <<exit_code, error, trace>>
    /\ UNCHANGED <<args, env, answers, force_configure, options, kforce,
                   target, depth, configure_log>>

\* lines 217-222
MenuConfig ==
    /\ pc = "menuconfig"
    /\ IF args.show_menuconfig
       THEN IF env.isatty
            THEN /\ trace' = Append(trace, "open_menuconfig")
                 /\ Return0
            ELSE /\ Exit1("NonInteractiveMenuConfig")
                 /\ UNCHANGED trace
       ELSE /\ pc' = "is_configured"
            /\ UNCHANGED <<exit_code, error, trace>>
    /\ UNCHANGED <<args, env, answers, force_configure, options, kforce, target, depth,
                   configure_log>>

\* Mutant of IsConfigured: accepting does not turn force mode on.
IsConfigured_NoForce ==
    /\ pc = "is_configured"
    /\ IF env.app.configured /\ kforce = FALSE
       THEN /\ trace' = Append(trace, "confirm_overwrite")
            /\ \E answer \in BOOLEAN :
                  IF answer
                  THEN /\ pc' = "resolve"
                       /\ UNCHANGED <<kforce, exit_code, error>>
                  ELSE /\ Exit1("CannotConfigureApplication")
                       /\ UNCHANGED kforce
       ELSE /\ pc' = "resolve"
            /\ UNCHANGED <<kforce, exit_code, error, trace>>
    /\ UNCHANGED <<args, env, answers, force_configure, options, target,
                   depth, configure_log>>

\* lines 224-228
IsConfigured ==
    /\ pc = "is_configured"
    /\ IF env.app.configured /\ kforce = FALSE
       THEN /\ trace' = Append(trace, "confirm_overwrite")
            /\ \E answer \in BOOLEAN :
                  IF answer
                  THEN /\ kforce' = TRUE
                       /\ pc' = "resolve"
                       /\ UNCHANGED <<exit_code, error>>
                  ELSE /\ Exit1("CannotConfigureApplication")
                       /\ UNCHANGED kforce
       ELSE /\ pc' = "resolve"
            /\ UNCHANGED <<kforce, exit_code, error, trace>>
    /\ UNCHANGED <<args, env, answers, force_configure, options, target, depth,
                   configure_log>>

\* lines 230-250
Resolve ==
    /\ pc = "resolve"
    /\ target' = ResolveTarget(env.app, target, args.arch, args.plat)
    /\ pc' = IF target'.kind = "none" THEN "prompt" ELSE "configure"
    /\ UNCHANGED <<args, env, answers, force_configure, options, kforce, depth,
                   exit_code, error, trace, configure_log>>

\* Mutant of Prompt: with nothing to pick the prompt never returns.
Prompt_BlocksWithoutChoices ==
    /\ pc = "prompt"
    /\ Choices(env.app.binaries) # <<>>
    /\ trace' = Append(trace, "prompt_target")
    /\ LET choices == Choices(env.app.binaries)
       IN  \E raised \in (IF env.isatty THEN {FALSE} ELSE BOOLEAN) :
               IF raised
               THEN /\ Exit1("Exception")
                    /\ UNCHANGED <<target, answers>>
               ELSE \E i \in 1..Len(choices) :
                       /\ answers' = choices[i]
                       /\ target' = WorkBackwards(env.app.binaries, answers')
                       /\ pc' = "configure"
                       /\ UNCHANGED <<exit_code, error>>
    /\ UNCHANGED <<args, env, force_configure, options, kforce, depth,
                   configure_log>>

\* lines 251-273: the operator picks one of the labels. With no binary
\* there is nothing to pick and inquirer raises; there is no test for a
\* terminal, and without one inquirer may raise too.
Prompt ==
    /\ pc = "prompt"
    /\ trace' = Append(trace, "prompt_target")
    /\ LET choices == Choices(env.app.binaries)
       IN  \E raised \in (IF choices = <<>> THEN {TRUE}
                          ELSE IF env.isatty THEN {FALSE} ELSE BOOLEAN) :
               IF raised
               THEN /\ Exit1("Exception")
                    /\ UNCHANGED <<target, answers>>
               ELSE \E i \in 1..Len(choices) :
                       /\ answers' = choices[i]
                       /\ target' = WorkBackwards(env.app.binaries, answers')
                       /\ pc' = "configure"
                       /\ UNCHANGED <<exit_code, error>>
    /\ UNCHANGED <<args, env, force_configure, options, kforce, depth,
                   configure_log>>

\* Mutant of Configure: save_yaml follows whatever configure did.
Configure_AlwaysSave ==
    /\ pc = "configure"
    /\ trace' = Append(trace, "configure")
    /\ \E res \in {"ok", "MissingComponent", "Exception"} :
          /\ configure_log' = Append(configure_log,
                 [target |-> target, options |-> options,
                  force_configure |-> kforce, result |-> res])
          /\ pc' = "save_yaml"
          /\ UNCHANGED <<exit_code, error>>
    /\ UNCHANGED <<args, env, answers, force_configure, options, kforce,
                   target, depth>>

\* lines 275-279: Application.configure returns, raises MissingComponent
\* or raises something else.
Configure ==
    /\ pc = "configure"
    /\ trace' = Append(trace, "configure")
    /\ \E res \in {"ok", "MissingComponent", "Exception"} :
          /\ configure_log' = Append(configure_log,
                 [target |-> target, options |-> options,
                  force_configure |-> kforce, result |-> res])
          /\ IF res = "ok"
             THEN /\ pc' = "save_yaml"
                  /\ UNCHANGED <<exit_code, error>>
             ELSE IF res = "MissingComponent"
             THEN /\ pc' = "missing"
                  /\ UNCHANGED <<exit_code, error>>
             ELSE Exit1("Exception")
    /\ UNCHANGED <<args, env, answers, force_configure, options, kforce,
                   target, depth>>

\* line 281, then both functions return
SaveYaml ==
    /\ pc = "save_yaml"
    /\ trace' = Append(trace, "save_yaml")
    /\ \E saved \in BOOLEAN :
          IF saved THEN Return0 ELSE Exit1("Exception")
    /\ UNCHANGED <<args, env, answers, force_configure, options, kforce, target, depth,
                   configure_log>>

\* lines 160-165 and 182-186: "except MissingComponent"
MissingComponent ==
    /\ pc = "missing"
    /\ IF force_configure
       THEN /\ pc' = "pull"
            /\ UNCHANGED <<exit_code, error, trace>>
       ELSE /\ trace' = Append(trace, "confirm_pull")
            /\ \E answer \in BOOLEAN :
                  IF answer
                  THEN /\ pc' = "pull"
                       /\ UNCHANGED <<exit_code, error>>
                  ELSE IF env.verbose
                       THEN Exit1("MissingComponent")
                       ELSE Return0
    /\ UNCHANGED <<args, env, answers, force_configure, options, kforce, target, depth,
                   configure_log>>

\* Mutant of Pull: the command is forwarded without force_configure=True.
Pull_KeepForce ==
    /\ pc = "pull"
    /\ trace' = Append(trace, "kraft_list_pull")
    /\ \E pulled \in BOOLEAN :
          IF ~pulled
          THEN Exit1("Exception")
          ELSE IF depth < MaxDepth
               THEN /\ pc' = "start"
                    /\ UNCHANGED <<exit_code, error>>
               ELSE Exit1("RecursionError")
    /\ UNCHANGED <<args, env, answers, force_configure, options, kforce,
                   target, depth, configure_log>>

\* lines 166-180: kraft_list_pull, then ctx.forward(cmd_configure,
\* force_configure=True): cmd_configure runs again, nested, with the same
\* parameters but force_configure; what it ends with ends the invocation.
\* At MaxDepth the interpreter raises RecursionError instead.
Pull ==
    /\ pc = "pull"
    /\ trace' = Append(trace, "kraft_list_pull")
    /\ \E pulled \in BOOLEAN :
          IF ~pulled
          THEN /\ Exit1("Exception")
               /\ UNCHANGED force_configure
          ELSE IF depth < MaxDepth
               THEN /\ pc' = "start"
                    /\ force_configure' = TRUE
                    /\ UNCHANGED <<exit_code, error>>
               ELSE /\ Exit1("RecursionError")
                    /\ UNCHANGED force_configure
    /\ UNCHANGED <<args, env, answers, options, kforce, target, depth, configure_log>>

Next ==
    \/ Preflight
    \/ Normalize
    \/ KraftConfigure
    \/ MenuConfig
    \/ IsConfigured
    \/ Resolve
    \/ Prompt
    \/ Configure
    \/ SaveYaml
    \/ MissingComponent
    \/ Pull

Spec == Init /\ [][Next]_vars

\* A few applications and hints, every flag: the runs whose end matters.
InitLive ==
    InitWith({<<>>, <<A>>}, {<<>>}, {<<>>, <<B>>, <<A_N>>},
             {None, <<"t", "2">>}, {<<None, None>>},
             BOOLEAN, BOOLEAN, BOOLEAN, BOOLEAN,
             {[targets |-> a[1], binaries |-> a[2], configured |-> c] :
                 <<a, c>> \in {<<(<<T1, T3>>), (<<T1, T3>>)>>,
                               <<(<<T1, T2>>), (<<>>)>>,
                               <<(<<T2>>), (<<T2>>)>>} \X BOOLEAN})

\* The command is sequential: every prompt is answered and every call
\* returns, so a step that can be taken is taken.
SpecLive == InitLive /\ [][Next]_vars /\ WF_vars(Next)

SpecOptions == InitOptions /\ [][Next]_vars

-----------------------------------------------------------------------------
\* Vocabulary of the properties.

\* How often op was called so far.
CountOf(op) == Cardinality({i \in 1..Len(trace) : trace[i] = op})

Called(op) == \E i \in 1..Len(trace) : trace[i] = op

Done == pc = "done"

\* The key namespace prefix itself.
KeyPrefix == <<"K", "E", "Y", "_">>

\* The part of an assignment or token before its first "=".
RECURSIVE KeyOf(_)
KeyOf(s) ==
    IF s = <<>> \/ Head(s) = "=" THEN <<>> ELSE <<Head(s)>> \o KeyOf(Tail(s))

\* The canonical key a token names: prefixed once, without any value.
CanonKey(tok) ==
    KeyOf(IF StartsWith(tok, KeyPrefix) THEN tok ELSE KeyPrefix \o tok)

\* The enable list and the disable list name a common key.
SharedKey ==
    \E i \in 1..Len(args.yes), j \in 1..Len(args.no) :
        CanonKey(args.yes[i]) = CanonKey(args.no[j])

\* Some --set token has no "=".
MalformedSet == \E k \in 1..Len(args.opts) : ~HasChar(args.opts[k], "=")

\* C1: enable and disable lists that share a key make the invocation fail
\* with the conflicting-option error; kraft_configure and
\* Application.configure are never invoked.
C1_ConflictAlwaysRejected ==
    SharedKey =>
        /\ ~Called("kraft_configure")
        /\ ~Called("configure")
        /\ Done => (exit_code = 1 /\ error = "ConflictingOption")

\* C2: in one invocation the fetch runs at most once and the Configure
\* sequence is entered at most twice.
C2_SingleRetry ==
    /\ CountOf("kraft_list_pull") <= 1
    /\ depth <= 2

\* C3: MissingComponent, no force mode and the operator declining the fetch
\* end the invocation with a non-zero status, verbose or not.
C3_DeclineFails ==
    (Done /\ trace # <<>> /\ trace[Len(trace)] = "confirm_pull")
        => exit_code # 0

\* The menu editor is requested without an interactive terminal.
MenuWithoutTerminal == args.show_menuconfig /\ ~env.isatty

IsTarget(x, t) == x.kind = "target" /\ x.val = t

\* C5: Application.configure is only ever invoked with one of the
\* application's targets or binaries, never with None or a raw name.
C5_ConfigureGetsKnownTarget ==
    \A i \in 1..Len(configure_log) :
        /\ configure_log[i].target.kind = "target"
        /\ \/ InList(configure_log[i].target.val, env.app.targets)
           \/ InList(configure_log[i].target.val, env.app.binaries)

\* C6: with exactly one declared target, that target is the one resolved
\* and configured, whatever the hints, and the target prompt is not shown.
C6_SingleTargetWins ==
    Len(env.app.targets) = 1 =>
        /\ pc # "prompt"
        /\ ~Called("prompt_target")
        /\ pc = "configure" => IsTarget(target, env.app.targets[1])
        /\ \A i \in 1..Len(configure_log) :
              IsTarget(configure_log[i].target, env.app.targets[1])

C6_Witness ==
    /\ Len(env.app.targets) = 1
    /\ args.target # None /\ args.target # env.app.targets[1].name
    /\ args.arch # None /\ args.plat # None
    /\ args.plat # env.app.targets[1].platform
    /\ configure_log # <<>>

\* --target names the second declared target and not the first.
NamesSecondTarget ==
    /\ Len(env.app.targets) >= 2
    /\ args.target # None
    /\ args.target = env.app.targets[2].name
    /\ args.target # env.app.targets[1].name

\* C7 as stated: when --target names the second declared target and not
\* the first, the second declared target is resolved.
C7_SecondTargetByName ==
    NamesSecondTarget =>
        /\ pc = "configure" => IsTarget(target, env.app.targets[2])
        /\ \A i \in 1..Len(configure_log) :
              IsTarget(configure_log[i].target, env.app.targets[2])

\* C7 amended: ... provided the application does not expose exactly one
\* binary and the supplied arch and plat are not those of the first target.
C7_SecondTargetByNameUnlessShortcut ==
    (/\ NamesSecondTarget
     /\ Len(env.app.binaries) # 1
     /\ ~(/\ args.arch = env.app.targets[1].architecture
          /\ args.plat = env.app.targets[1].platform)) =>
        /\ pc # "prompt"
        /\ pc = "configure" => IsTarget(target, env.app.targets[2])
        /\ \A i \in 1..Len(configure_log) :
              IsTarget(configure_log[i].target, env.app.targets[2])

C7_Witness ==
    /\ NamesSecondTarget
    /\ Len(env.app.binaries) # 1
    /\ ~(/\ args.arch = env.app.targets[1].architecture
         /\ args.plat = env.app.targets[1].platform)
    /\ configure_log # <<>>
    /\ IsTarget(configure_log[1].target, env.app.targets[2])

\* The example of C8: enable a, disable b, set c=2.
ExampleABC == args.yes = <<A>> /\ args.no = <<B>> /\ args.opts = <<C_2>>

\* C8 as stated: the prefix goes to the enable and disable tokens only;
\* configure receives [KEY_a=y, KEY_b=n, c=2].
C8_SetTokenUnchanged ==
    ExampleABC =>
        \A i \in 1..Len(configure_log) :
            configure_log[i].options =
                << <<"K", "E", "Y", "_", "a", "=", "y">>,
                   <<"K", "E", "Y", "_", "b", "=", "n">>,
                   <<"c", "=", "2">> >>

\* C8 amended: the prefix goes to enable, disable and set tokens alike
\* (to every token that does not begin with the KCONFIG template);
\* configure receives [KEY_a=y, KEY_b=n, KEY_c=2], and in general the
\* k-th set token arrives prefixed after the enable and disable entries.
C8_SetTokenPrefixed ==
    \A i \in 1..Len(configure_log) :
        LET o == configure_log[i].options
            ny == Len(args.yes)
            nn == Len(args.no)
        IN  /\ Len(o) = ny + nn + Len(args.opts)
            /\ \A k \in 1..Len(args.opts) :
                  ~StartsWith(args.opts[k], KCONFIG) =>
                      o[ny + nn + k] = KeyPrefix \o args.opts[k]
            /\ ExampleABC =>
                  o = << <<"K", "E", "Y", "_", "a", "=", "y">>,
                         <<"K", "E", "Y", "_", "b", "=", "n">>,
                         <<"K", "E", "Y", "_", "c", "=", "2">> >>

C8_Witness == ExampleABC /\ configure_log # <<>>

\* C9: no list handed to Application.configure holds two assignments of
\* one key with different values.
C9_UniqueKeys ==
    \A i \in 1..Len(configure_log) :
        LET o == configure_log[i].options
        IN  \A j, k \in 1..Len(o) : KeyOf(o[j]) = KeyOf(o[k]) => o[j] = o[k]

\* C10: a --set token without "=" makes the invocation fail with the
\* missing-option-value error, without kraft_configure,
\* Application.configure or save_yaml, when enable and disable do not
\* conflict.
C10_SetNeedsValue ==
    (MalformedSet /\ ~SharedKey) =>
        /\ pc \in {"start", "normalize", "done"}
        /\ \A op \in {"kraft_configure", "configure", "save_yaml"} : ~Called(op)
        /\ Done => (exit_code = 1 /\ error = "MissingOptionValue")

C10_Witness ==
    /\ Len(args.opts) = 2
    /\ HasChar(args.opts[1], "=")
    /\ ~HasChar(args.opts[2], "=")
    /\ args.yes # <<>> /\ args.no # <<>> /\ ~SharedKey
    /\ Done /\ error = "MissingOptionValue"

\* The last call or prompt so far.
LastOp == IF trace = <<>> THEN "none" ELSE trace[Len(trace)]

\* o holds one assignment per enable token, then one per disable token:
\* the token, under the key prefix, with "=y" or "=n".
EnableThenDisable(o) ==
    LET ny == Len(args.yes)
        nn == Len(args.no)
        Emitted(tok, v) ==
            IF StartsWith(tok, KeyPrefix)
            THEN {tok \o <<"=", v>>, KeyPrefix \o tok \o <<"=", v>>}
            ELSE {KeyPrefix \o tok \o <<"=", v>>}
    IN  /\ Len(o) = ny + nn
        /\ \A i \in 1..ny : o[i] \in Emitted(args.yes[i], "y")
        /\ \A j \in 1..nn : o[ny + j] \in Emitted(args.no[j], "n")

\* C11: enable and disable lists without a common key, and no --set:
\* normalization succeeds and gives |E|+|D| assignments, KEY=y for each
\* enable token in order, then KEY=n for each disable token in order.
C11_DisjointListsNormalize ==
    (~SharedKey /\ args.opts = <<>>) =>
        /\ error \notin {"ConflictingOption", "MissingOptionValue"}
        /\ pc \notin {"start", "normalize"} => EnableThenDisable(options)
        /\ \A i \in 1..Len(configure_log) :
              EnableThenDisable(configure_log[i].options)

C11_Witness ==
    /\ ~SharedKey /\ args.opts = <<>>
    /\ Len(args.yes) = 2 /\ args.yes[1] # args.yes[2]
    /\ Len(args.no) = 2 /\ args.no[1] # args.no[2]
    /\ configure_log # <<>>

\* C12: outside the menu editor path a configured application is only
\* configured with force mode on: without --force the operator is asked;
\* declining ends with CannotConfigureApplication and neither configure
\* nor save_yaml, accepting turns the force flag on.
C12_ConfiguredNeedsForce ==
    /\ \A i \in 1..Len(configure_log) :
          env.app.configured => configure_log[i].force_configure
    /\ (env.app.configured /\ ~args.force_configure /\ configure_log # <<>>)
          => Called("confirm_overwrite")
    /\ (Done /\ LastOp = "confirm_overwrite") =>
          /\ exit_code = 1
          /\ error = "CannotConfigureApplication"
          /\ ~Called("configure")
          /\ ~Called("save_yaml")
    /\ error = "CannotConfigureApplication" => LastOp = "confirm_overwrite"

C12_Witness ==
    /\ env.app.configured /\ ~args.force_configure
    /\ Called("confirm_overwrite")
    /\ configure_log # <<>>
    /\ configure_log[1].force_configure

\* C13: without a terminal the target prompt is never entered.
C13_NoPromptWithoutTerminal ==
    ~env.isatty =>
        /\ ~Called("prompt_target")
        /\ answers = None

\* C14: the target configured after the prompt is the binary whose label
\* the operator picked.
C14_LabelMapsBack ==
    (pc = "configure" /\ answers # None) =>
        \E i \in 1..Len(env.app.binaries) :
            /\ BinLabel(env.app.binaries[i]) = answers
            /\ IsTarget(target, env.app.binaries[i])

MenuOnTerminal == args.show_menuconfig /\ env.isatty

\* C16: with the menu editor requested on a terminal the operation ends
\* in open_menuconfig; the already-configured prompt, target resolution,
\* the target prompt, Application.configure and save_yaml never run.
C16_MenuBypassesConfigure ==
    MenuOnTerminal =>
        /\ pc \in {"start", "normalize", "kraft_configure", "menuconfig", "done"}
        /\ \A op \in {"confirm_overwrite", "prompt_target", "configure",
                      "save_yaml", "kraft_list_pull"} : ~Called(op)
        /\ target.kind # "target"
        /\ answers = None
        /\ configure_log = <<>>
        /\ Called("open_menuconfig") => (Done /\ exit_code = 0
                                          /\ LastOp = "open_menuconfig")
        /\ (Done /\ Called("kraft_configure") /\ error # "Exception")
              => Called("open_menuconfig")

C16_Witness ==
    /\ MenuOnTerminal
    /\ env.app.configured /\ ~args.force_configure
    /\ args.target # None /\ args.arch # None
    /\ Len(env.app.targets) = 2
    /\ Done /\ LastOp = "open_menuconfig"

\* C17: a token that already carries the key prefix gets no second one:
\* every assignment handed to configure has the canonical key of its token.
C17_PrefixOnce ==
    \A i \in 1..Len(configure_log) :
        LET o == configure_log[i].options
            tokens == args.yes \o args.no \o args.opts
        IN  \A k \in 1..Len(tokens) :
                k <= Len(o) => KeyOf(o[k]) = CanonKey(tokens[k])

\* Not one declared target, but exactly one binary.
SingleBinary == Len(env.app.targets) # 1 /\ Len(env.app.binaries) = 1

\* C18: with exactly one binary (and not exactly one target) that binary
\* is resolved and configured, whatever the hints, without a prompt.
C18_SingleBinaryWins ==
    SingleBinary =>
        /\ pc # "prompt"
        /\ ~Called("prompt_target")
        /\ pc = "configure" => IsTarget(target, env.app.binaries[1])
        /\ \A i \in 1..Len(configure_log) :
              IsTarget(configure_log[i].target, env.app.binaries[1])

C18_Witness ==
    /\ SingleBinary
    /\ \E j \in 1..Len(env.app.targets) :
          /\ env.app.targets[j].name = args.target
          /\ env.app.targets[j] # env.app.binaries[1]
    /\ configure_log # <<>>

\* C19: a failed fetch ends the invocation with a non-zero status and no
\* re-entry; a re-entry follows a fetch only, runs with force mode on and
\* does not show the already-configured prompt again.
C19_RetryIsForced ==
    /\ (Done /\ LastOp = "kraft_list_pull") => exit_code = 1
    /\ CountOf("kraft_list_preflight") <= CountOf("kraft_list_pull") + 1
    /\ (pc = "start" /\ depth >= 1) =>
          (force_configure /\ LastOp = "kraft_list_pull")
    /\ depth >= 2 => force_configure
    /\ \A i \in 1..Len(trace) :
          trace[i] = "kraft_list_pull" =>
              /\ i > 1
              /\ \/ trace[i - 1] = "confirm_pull"
                 \/ trace[i - 1] = "configure" /\ force_configure
              /\ \A j \in (i + 1)..Len(trace) : trace[j] # "confirm_overwrite"
    /\ \A i \in 2..Len(configure_log) : configure_log[i].force_configure

C19_Witness ==
    /\ env.app.configured /\ ~args.force_configure
    /\ CountOf("confirm_overwrite") = 1
    /\ Len(configure_log) = 2

\* C20: save_yaml only ever follows, at once, an Application.configure
\* call that returned; after a configure that raised there is no save_yaml.
C20_SaveFollowsConfigure ==
    /\ \A i \in 1..Len(trace) :
          trace[i] = "save_yaml" =>
              /\ i > 1
              /\ trace[i - 1] = "configure"
              /\ i = Len(trace)
    /\ (pc = "save_yaml" \/ Called("save_yaml")) =>
          /\ configure_log # <<>>
          /\ configure_log[Len(configure_log)].result = "ok"
    /\ pc = "save_yaml" => LastOp = "configure"

C20_Witness ==
    /\ Done /\ exit_code = 0
    /\ LastOp = "save_yaml"
    /\ Len(configure_log) = 2
    /\ configure_log[1].result = "MissingComponent"

====
